---- MODULE Spec2Model ----
(***************************************************************************)
(* A model of rows.go (package excelize): the streaming row iterator       *)
(* (Rows / Next / Columns / GetRows), the row metadata accessors, the      *)
(* structural row operations (RemoveRow, InsertRow, DuplicateRow,          *)
(* DuplicateRowTo with its merged-cell repair) and checkRow.               *)
(*                                                                         *)
(* Conventions.  Go slices are 0-based, TLA+ sequences 1-based: the Go     *)
(* index row-1 is the TLA+ index row.  A cell reference "C15" is the       *)
(* record [col |-> 3, row |-> 15]; a merged-cell reference "C2:D2" is the  *)
(* record [from |-> [col |-> 3, row |-> 2], to |-> [col |-> 4, row |-> 2]].*)
(* A nil slice / nil MergeCells pointer is the empty sequence.             *)
(***************************************************************************)
EXTENDS Integers, Sequences, FiniteSets, TLC

VARIABLES
    sheetData,      \* xlsx.SheetData.Row: the in-memory row records
    mergeCells,     \* xlsx.MergeCells.Cells: the merged-cell references
    loaded,         \* f.Sheet[name] != nil
    xml,            \* the worksheet part's bytes, as the decoder's tokens
    sharedStrings,  \* f.SharedStrings.SI
    iter,           \* the Rows iterator: curRow, totalRow, stashRow, decoder position
    results,        \* GetRows' results slice
    pc,             \* where the caller of the iterator stands
    last,           \* the last call made: operation, arguments, what it returned
    nops            \* calls made so far

vars == <<sheetData, mergeCells, loaded, xml, sharedStrings, iter, results, pc, last, nops>>

(***************************************************************************)
(* Bounds of the model.                                                    *)
(***************************************************************************)
MaxRows == 1        \* row records of the worksheet when it is loaded (Spec)
MaxOps == 2         \* calls per behaviour (Spec)
MaxEditRows == 2    \* row records of the worksheet when it is loaded (SpecEdit)
MaxEditOps == 2     \* calls per behaviour (SpecEdit)
MaxXmlRows == 2     \* row elements of a worksheet part (SpecRows)
MaxXmlRowNum == 4   \* largest row number a row element declares (SpecRows)
MaxCheckRows == 2   \* row records handed to checkRow (SpecCheckRow)
MaxCheckCol == 3    \* largest column of a cell handed to checkRow (SpecCheckRow)
MaxSST == 2         \* strings of the shared-string table (SpecValue)
MaxFlushOps == 2    \* edits before the worksheet is read (SpecFlush)
MaxErrRows == 2     \* row elements of a malformed worksheet part (SpecRowsErr)
MaxIterCalls == 4   \* Next and Columns calls on one iterator (SpecIter)
MaxRepairCells == 3 \* merged regions when the merge repair starts (SpecRepair)

(***************************************************************************)
(* Errors.                                                                 *)
(***************************************************************************)
NilErr == "nil"
ErrInvalidRowNumber == "InvalidRowNumber"
ErrInvalidOutlineLevel == "invalid outline level"
ErrInvalidCellName == "invalid cell name"

defaultRowHeightPixels == 20

Min(S) == CHOOSE m \in S : \A k \in S : m <= k

(***************************************************************************)
(* xlsxC and xlsxRow values.                                               *)
(***************************************************************************)
CellName(col, row) == [col |-> col, row |-> row]

\* IS is the inline string of the cell: nil (no <is> element) or its text.
NilIS == [nil |-> TRUE, t |-> ""]

InlineIS(t) == [nil |-> FALSE, t |-> t]

xlsxC(ref, t, v, s) == [R |-> ref, T |-> t, V |-> v, S |-> s, IS |-> NilIS]

\* xlsxC{R: cellName}
BlankC(ref) == xlsxC(ref, "", "", 0)

\* xlsxRow{R: r}
xlsxRow(r) ==
    [R |-> r, Ht |-> 0, CustomHeight |-> FALSE, Hidden |-> FALSE,
     OutlineLevel |-> 0, C |-> <<>>]

\* CellNameToCoordinates: the column and row of a reference, an error for a
\* reference that names no cell.
CellNameToCoordinates(ref) ==
    IF ref.col < 1 \/ ref.row < 1
    THEN [col |-> -1, row |-> -1, err |-> ErrInvalidCellName]
    ELSE [col |-> ref.col, row |-> ref.row, err |-> NilErr]

\* CoordinatesToCellName
CoordinatesToCellName(col, row) == CellName(col, row)

\* areaRefToCoordinates: [x1, y1, x2, y2] of "A1:B2".
areaRefToCoordinates(ref) == <<ref.from.col, ref.from.row, ref.to.col, ref.to.row>>

AreaRef(x1, y1, x2, y2) == [from |-> CellName(x1, y1), to |-> CellName(x2, y2)]

(***************************************************************************)
(* checkRow (rows.go:586-626).  For the row record at index rowIdx whose   *)
(* cell count is below the column of its last cell, build lastCol blank    *)
(* cells named by CoordinatesToCellName(colIdx+1, rowIdx+1) -- the index   *)
(* of the record, not its R -- and copy the old cells over them by column. *)
(***************************************************************************)
RECURSIVE overlayCells(_, _, _)
overlayCells(newlist, oldList, colIdx) ==
    IF colIdx > Len(oldList) THEN [C |-> newlist, err |-> NilErr]
    ELSE LET co == CellNameToCoordinates(oldList[colIdx].R) IN
         IF co.err # NilErr THEN [C |-> newlist, err |-> co.err]
         ELSE overlayCells([newlist EXCEPT ![co.col] = oldList[colIdx]], oldList, colIdx + 1)

checkRowCells(rowData, rowIdx) ==
    LET colCount == Len(rowData.C) IN
    IF colCount = 0 THEN [C |-> rowData.C, err |-> NilErr]
    ELSE LET last_ == CellNameToCoordinates(rowData.C[colCount].R) IN
         IF last_.err # NilErr THEN [C |-> rowData.C, err |-> last_.err]
         ELSE IF colCount < last_.col
              THEN overlayCells([colIdx \in 1..last_.col |->
                                    BlankC(CoordinatesToCellName(colIdx, rowIdx))],
                                rowData.C, 1)
              ELSE [C |-> rowData.C, err |-> NilErr]

RECURSIVE checkRowFrom(_, _)
checkRowFrom(rows, rowIdx) ==
    IF rowIdx > Len(rows) THEN [Row |-> rows, err |-> NilErr]
    ELSE LET r == checkRowCells(rows[rowIdx], rowIdx)
             rows2 == [rows EXCEPT ![rowIdx].C = r.C]
         IN  IF r.err # NilErr THEN [Row |-> rows2, err |-> r.err]
             ELSE checkRowFrom(rows2, rowIdx + 1)

checkRow(rows) == checkRowFrom(rows, 1)

(***************************************************************************)
(* Collaborators of rows.go that live in other files of the package.       *)
(***************************************************************************)
\* prepareSheetXML(xlsx, 0, row): extend the row storage up to and including
\* index row; the records appended are numbered by their position.
prepareSheetXML(rows, row) ==
    IF Len(rows) >= row THEN rows
    ELSE [i \in 1..row |-> IF i <= Len(rows) THEN rows[i] ELSE xlsxRow(i)]

\* ajustSingleRowDimensions: renumber a row record and every cell reference in it.
ajustSingleRowDimensions(r, num) ==
    [r EXCEPT !.R = num,
              !.C = [i \in 1..Len(r.C) |-> [r.C[i] EXCEPT !.R = CellName(r.C[i].R.col, num)]]]

\* The shift of one row number by offset at the pivot num; numbers stay 1-based.
adjustNumber(y, num, offset) ==
    IF y >= num /\ y + offset >= 1 THEN y + offset ELSE y

adjustRowDimensions(rows, num, offset) ==
    [i \in 1..Len(rows) |->
        IF adjustNumber(rows[i].R, num, offset) # rows[i].R
        THEN ajustSingleRowDimensions(rows[i], adjustNumber(rows[i].R, num, offset))
        ELSE rows[i]]

adjustMergeCells(cells, num, offset) ==
    [i \in 1..Len(cells) |->
        LET c == areaRefToCoordinates(cells[i]) IN
        AreaRef(c[1], adjustNumber(c[2], num, offset), c[3], adjustNumber(c[4], num, offset))]

\* adjustHelper(sheet, rows, num, offset): shift every row reference by offset
\* at num, then densify the rows.
adjustHelper(rows, cells, num, offset) ==
    [Row |-> checkRow(adjustRowDimensions(rows, num, offset)).Row,
     MergeCells |-> adjustMergeCells(cells, num, offset)]

\* MergeCell(sheet, from, to): create a merged region.
MergeCell(cells, from, to) == Append(cells, [from |-> from, to |-> to])

(***************************************************************************)
(* Row metadata accessors.  Each returns the row records after the call    *)
(* (Row), the value returned (ret) and the error (err).                    *)
(***************************************************************************)
SetRowHeight(rows, row, height) ==
    IF row < 1 THEN [Row |-> rows, err |-> ErrInvalidRowNumber]
    ELSE [Row |-> [prepareSheetXML(rows, row) EXCEPT ![row].Ht = height,
                                                     ![row].CustomHeight = TRUE],
          err |-> NilErr]

GetRowHeight(rows, row) ==
    IF row < 1 THEN [ret |-> defaultRowHeightPixels, err |-> ErrInvalidRowNumber]
    ELSE IF row > Len(rows) THEN [ret |-> defaultRowHeightPixels, err |-> NilErr]
    ELSE LET hit == {i \in 1..Len(rows) : rows[i].R = row /\ rows[i].Ht # 0} IN
         IF hit # {} THEN [ret |-> rows[Min(hit)].Ht, err |-> NilErr]
         ELSE [ret |-> defaultRowHeightPixels, err |-> NilErr]

SetRowVisible(rows, row, visible) ==
    IF row < 1 THEN [Row |-> rows, err |-> ErrInvalidRowNumber]
    ELSE [Row |-> [prepareSheetXML(rows, row) EXCEPT ![row].Hidden = ~visible],
          err |-> NilErr]

GetRowVisible(rows, row) ==
    IF row < 1 THEN [ret |-> FALSE, err |-> ErrInvalidRowNumber]
    ELSE IF row > Len(rows) THEN [ret |-> FALSE, err |-> NilErr]
    ELSE [ret |-> ~rows[row].Hidden, err |-> NilErr]

SetRowOutlineLevel(rows, row, level) ==
    IF row < 1 THEN [Row |-> rows, err |-> ErrInvalidRowNumber]
    ELSE IF level > 7 \/ level < 1 THEN [Row |-> rows, err |-> ErrInvalidOutlineLevel]
    ELSE [Row |-> [prepareSheetXML(rows, row) EXCEPT ![row].OutlineLevel = level],
          err |-> NilErr]

GetRowOutlineLevel(rows, row) ==
    IF row < 1 THEN [ret |-> 0, err |-> ErrInvalidRowNumber]
    ELSE IF row > Len(rows) THEN [ret |-> 0, err |-> NilErr]
    ELSE [ret |-> rows[row].OutlineLevel, err |-> NilErr]

(***************************************************************************)
(* Structural operations.  Each returns the row records (Row), the merged  *)
(* cells (MergeCells) and the error (err).                                 *)
(***************************************************************************)
\* RemoveRow with row >= len(rows) for its first test: the last record is
\* shifted, not deleted.
RemoveRowOffByOne(rows, cells, row) ==
    IF row < 1 THEN [Row |-> rows, MergeCells |-> cells, err |-> ErrInvalidRowNumber]
    ELSE IF row >= Len(rows)
    THEN LET a == adjustHelper(rows, cells, row, -1) IN
         [Row |-> a.Row, MergeCells |-> a.MergeCells, err |-> NilErr]
    ELSE LET hit == {i \in 1..Len(rows) : rows[i].R = row} IN
         IF hit = {} THEN [Row |-> rows, MergeCells |-> cells, err |-> NilErr]
         ELSE LET rowIdx == Min(hit)
                  cut == SubSeq(rows, 1, rowIdx - 1) \o SubSeq(rows, rowIdx + 1, Len(rows))
                  a == adjustHelper(cut, cells, row, -1)
              IN  [Row |-> a.Row, MergeCells |-> a.MergeCells, err |-> NilErr]

RemoveRow(rows, cells, row) ==
    IF row < 1 THEN [Row |-> rows, MergeCells |-> cells, err |-> ErrInvalidRowNumber]
    ELSE IF row > Len(rows)
    THEN LET a == adjustHelper(rows, cells, row, -1) IN
         [Row |-> a.Row, MergeCells |-> a.MergeCells, err |-> NilErr]
    ELSE LET hit == {i \in 1..Len(rows) : rows[i].R = row} IN
         IF hit = {} THEN [Row |-> rows, MergeCells |-> cells, err |-> NilErr]
         ELSE LET rowIdx == Min(hit)
                  cut == SubSeq(rows, 1, rowIdx - 1) \o SubSeq(rows, rowIdx + 1, Len(rows))
                  a == adjustHelper(cut, cells, row, -1)
              IN  [Row |-> a.Row, MergeCells |-> a.MergeCells, err |-> NilErr]

\* InsertRow that shifts at the row after the given one.
InsertRowAfter(rows, cells, row) ==
    IF row < 1 THEN [Row |-> rows, MergeCells |-> cells, err |-> ErrInvalidRowNumber]
    ELSE LET a == adjustHelper(rows, cells, row + 1, 1) IN
         [Row |-> a.Row, MergeCells |-> a.MergeCells, err |-> NilErr]

\* InsertRow with row < 0 for its test: row 0 is accepted.
InsertRowAcceptsZero(rows, cells, row) ==
    IF row < 0 THEN [Row |-> rows, MergeCells |-> cells, err |-> ErrInvalidRowNumber]
    ELSE LET a == adjustHelper(rows, cells, row, 1) IN
         [Row |-> a.Row, MergeCells |-> a.MergeCells, err |-> NilErr]

InsertRow(rows, cells, row) ==
    IF row < 1 THEN [Row |-> rows, MergeCells |-> cells, err |-> ErrInvalidRowNumber]
    ELSE LET a == adjustHelper(rows, cells, row, 1) IN
         [Row |-> a.Row, MergeCells |-> a.MergeCells, err |-> NilErr]

\* The first loop of duplicateMergeCells (rows.go:537-545): some region has
\* row2 strictly inside its row span.
straddles(cells, row2) ==
    \E i \in 1..Len(cells) :
        LET c == areaRefToCoordinates(cells[i]) IN c[2] < row2 /\ row2 < c[4]

\* repairIteration that also takes a single-row region of row2 for a region
\* of the source row.
repairIterationAnyRow(cells, i, row, row2) ==
    LET c == areaRefToCoordinates(cells[i]) IN
    IF c[2] = c[4] /\ c[2] \in {row, row2}
    THEN [cells |-> MergeCell(cells, CoordinatesToCellName(c[1], row2),
                                     CoordinatesToCellName(c[3], row2)),
          i |-> i + 2]
    ELSE [cells |-> cells, i |-> i + 1]

\* One iteration of the second loop of duplicateMergeCells, at the list
\* entry i (rows.go:547-557, and the i++ of the for statement): the list and
\* the index afterwards.  i is advanced once by the loop and once more after
\* a region was created.
repairIteration(cells, i, row, row2) ==
    LET c == areaRefToCoordinates(cells[i]) IN
    IF c[2] = c[4] /\ c[2] = row
    THEN [cells |-> MergeCell(cells, CoordinatesToCellName(c[1], row2),
                                     CoordinatesToCellName(c[3], row2)),
          i |-> i + 2]
    ELSE [cells |-> cells, i |-> i + 1]

\* The second loop of duplicateMergeCells (rows.go:546-558).
RECURSIVE duplicateMergeLoop(_, _, _, _)
duplicateMergeLoop(cells, i, row, row2) ==
    IF i > Len(cells) THEN cells
    ELSE duplicateMergeLoop(repairIteration(cells, i, row, row2).cells,
                            repairIteration(cells, i, row, row2).i, row, row2)

\* duplicateMergeCells without its first loop: regions are created although
\* a region straddles row2.
duplicateMergeCellsNoStraddleTest(cells, row, row2) ==
    IF cells = <<>> THEN cells
    ELSE duplicateMergeLoop(cells, 1, IF row > row2 THEN row + 1 ELSE row, row2)

duplicateMergeCells(cells, row, row2) ==
    IF cells = <<>> THEN cells
    ELSE IF straddles(cells, row2) THEN cells
    ELSE duplicateMergeLoop(cells, 1, IF row > row2 THEN row + 1 ELSE row, row2)

\* DuplicateRowTo that shifts at row2 before it looks for the source row: a
\* call that finds no source row has shifted all the same.
DuplicateRowToShiftsFirst(rows, cells, row, row2) ==
    IF row < 1
    THEN [Row |-> rows, MergeCells |-> cells, err |-> ErrInvalidRowNumber, placed |-> FALSE]
    ELSE IF row > Len(rows) \/ row2 < 1 \/ row = row2
    THEN [Row |-> rows, MergeCells |-> cells, err |-> NilErr, placed |-> FALSE]
    ELSE LET src == {i \in 1..Len(rows) : rows[i].R = row}
             a == adjustHelper(rows, cells, row2, 1)
             dst == {i \in 1..Len(a.Row) : a.Row[i].R = row2}
         IN  IF src = {} \/ (dst = {} /\ Len(a.Row) >= row2)
             THEN [Row |-> a.Row, MergeCells |-> a.MergeCells, err |-> NilErr,
                   placed |-> FALSE]
             ELSE LET copy == ajustSingleRowDimensions(rows[Min(src)], row2) IN
                  [Row |-> IF dst # {} THEN [a.Row EXCEPT ![Min(dst)] = copy]
                           ELSE Append(a.Row, copy),
                   MergeCells |-> duplicateMergeCells(a.MergeCells, row, row2),
                   err |-> NilErr, placed |-> TRUE]

\* placed: the copy was put into the row records (rows.go:517-525 ran).
DuplicateRowTo(rows, cells, row, row2) ==
    IF row < 1
    THEN [Row |-> rows, MergeCells |-> cells, err |-> ErrInvalidRowNumber, placed |-> FALSE]
    ELSE IF row > Len(rows) \/ row2 < 1 \/ row = row2
    THEN [Row |-> rows, MergeCells |-> cells, err |-> NilErr, placed |-> FALSE]
    ELSE LET src == {i \in 1..Len(rows) : rows[i].R = row} IN
         IF src = {}
         THEN [Row |-> rows, MergeCells |-> cells, err |-> NilErr, placed |-> FALSE]
         ELSE LET rowCopy == rows[Min(src)]
                  a == adjustHelper(rows, cells, row2, 1)
                  dst == {i \in 1..Len(a.Row) : a.Row[i].R = row2}
              IN  IF dst = {} /\ Len(a.Row) >= row2
                  THEN [Row |-> a.Row, MergeCells |-> a.MergeCells, err |-> NilErr,
                        placed |-> FALSE]
                  ELSE LET copy == ajustSingleRowDimensions(rowCopy, row2) IN
                       [Row |-> IF dst # {} THEN [a.Row EXCEPT ![Min(dst)] = copy]
                                ELSE Append(a.Row, copy),
                        MergeCells |-> duplicateMergeCells(a.MergeCells, row, row2),
                        err |-> NilErr, placed |-> TRUE]

DuplicateRow(rows, cells, row) == DuplicateRowTo(rows, cells, row, row + 1)

(***************************************************************************)
(* The worksheet part as the xml.Decoder hands it out: a sequence of       *)
(* tokens.  "row" is the start of a row element with its r attribute (a    *)
(* string), "c" a whole cell element (DecodeElement reads it to its end),  *)
(* "endrow" the end of a row element, "start" and "end" the elements       *)
(* around the rows.                                                        *)
(***************************************************************************)
NoC == xlsxC(CellName(0, 0), "", "", 0)

Tok(type, r, c) == [type |-> type, r |-> r, c |-> c]

\* strconv.Atoi on the texts the model writes: the decimal numerals of
\* -9..99; any other text is an error and yields 0.
Numerals == [n \in -9..99 |-> ToString(n)]

Atoi(v) ==
    LET hit == {n \in -9..99 : Numerals[n] = v} IN
    IF hit = {} THEN [n |-> 0, err |-> "strconv.Atoi: invalid syntax"]
    ELSE [n |-> CHOOSE n \in hit : TRUE, err |-> NilErr]

RECURSIVE Concat(_)
Concat(ss) == IF ss = <<>> THEN <<>> ELSE Head(ss) \o Concat(Tail(ss))

\* xml.Marshal of the worksheet's rows: one row element per record, in the
\* order of the records, its number as the r attribute, its cells inside.
MarshalRow(r) ==
    <<Tok("row", ToString(r.R), NoC)>>
    \o [i \in 1..Len(r.C) |-> Tok("c", "", r.C[i])]
    \o <<Tok("endrow", "", NoC)>>

Marshal(rows) ==
    <<Tok("start", "", NoC)>>
    \o Concat([i \in 1..Len(rows) |-> MarshalRow(rows[i])])
    \o <<Tok("end", "", NoC)>>

\* formattedValue(s, v): the value as the cell's style displays it; style 0
\* leaves it as it is.
formattedValue(s, v) == IF s = 0 THEN v ELSE "fmt(" \o v \o ")"

\* getValueFrom (rows.go:301-322); d is the shared-string table d.SI.
\* panic: d.SI[xlsxSI] with a negative xlsxSI.
getValueFrom(c, d) ==
    IF c.T = "s"
    THEN IF c.V # "" /\ Len(d) > Atoi(c.V).n
         THEN IF Atoi(c.V).n < 0
              THEN [val |-> "", panic |-> TRUE]
              ELSE [val |-> formattedValue(c.S, d[Atoi(c.V).n + 1]), panic |-> FALSE]
         ELSE [val |-> formattedValue(c.S, c.V), panic |-> FALSE]
    ELSE IF c.T = "inlineStr" /\ ~c.IS.nil
    THEN [val |-> formattedValue(c.S, c.IS.t), panic |-> FALSE]
    ELSE [val |-> formattedValue(c.S, c.V), panic |-> FALSE]

\* The pre-scan of Rows (rows.go:185-207): totalRow is the r attribute of
\* the row element read last; a malformed r ends the scan with the error.
RECURSIVE preScan(_, _, _)
preScan(toks, pos, totalRow) ==
    IF pos > Len(toks) THEN [totalRow |-> totalRow, err |-> NilErr]
    ELSE IF toks[pos].type = "row"
    THEN IF Atoi(toks[pos].r).err # NilErr
         THEN [totalRow |-> totalRow, err |-> Atoi(toks[pos].r).err]
         ELSE preScan(toks, pos + 1, Atoi(toks[pos].r).n)
    ELSE preScan(toks, pos + 1, totalRow)

\* Next that starts over once the cursor has passed the last row.
RowsNextRestarts(it) ==
    IF it.curRow > it.totalRow
    THEN [it |-> [it EXCEPT !.curRow = 1], ret |-> 1 <= it.totalRow]
    ELSE [it |-> [it EXCEPT !.curRow = it.curRow + 1],
          ret |-> it.curRow + 1 <= it.totalRow]

\* Rows.Next (rows.go:72-75).
RowsNext(it) == [it |-> [it EXCEPT !.curRow = it.curRow + 1],
                 ret |-> it.curRow + 1 <= it.totalRow]

\* padTo with the loop started at 0: one blank too many.
padToFromZero(columns, cellCol) ==
    columns \o [i \in 1..(cellCol - Len(columns)) |-> ""]

\* The blanks Columns puts before a cell of column cellCol (rows.go:125-128).
padTo(columns, cellCol) ==
    columns \o [i \in 1..(cellCol - Len(columns) - 1) |-> ""]

\* The token loop of Rows.Columns (rows.go:96-139).
RECURSIVE columnsScan(_, _, _, _, _)
columnsScan(toks, d, it, pos, columns) ==
    IF pos > Len(toks)
    THEN [columns |-> columns, err |-> NilErr, panic |-> FALSE,
          it |-> [it EXCEPT !.pos = pos]]
    ELSE LET tok == toks[pos] IN
         IF tok.type = "row"
         THEN LET a == Atoi(tok.r) IN
              IF a.err # NilErr
              THEN [columns |-> columns, err |-> a.err, panic |-> FALSE,
                    it |-> [it EXCEPT !.pos = pos + 1]]
              ELSE IF a.n > it.curRow
              THEN [columns |-> columns, err |-> NilErr, panic |-> FALSE,
                    it |-> [it EXCEPT !.pos = pos + 1, !.stashRow = a.n - 1]]
              ELSE columnsScan(toks, d, it, pos + 1, columns)
         ELSE IF tok.type = "c"
         THEN LET co == CellNameToCoordinates(tok.c.R)
                  v == getValueFrom(tok.c, d)
              IN  IF co.err # NilErr
                  THEN [columns |-> columns, err |-> co.err, panic |-> FALSE,
                        it |-> [it EXCEPT !.pos = pos + 1]]
                  ELSE IF v.panic
                  THEN [columns |-> columns, err |-> NilErr, panic |-> TRUE,
                        it |-> [it EXCEPT !.pos = pos + 1]]
                  ELSE columnsScan(toks, d, it, pos + 1,
                                   Append(padTo(columns, co.col), v.val))
         ELSE IF tok.type = "endrow"
         THEN [columns |-> columns, err |-> NilErr, panic |-> FALSE,
               it |-> [it EXCEPT !.pos = pos + 1]]
         ELSE columnsScan(toks, d, it, pos + 1, columns)

\* Rows.Columns (rows.go:83-140).
RowsColumns(toks, d, it) ==
    IF it.stashRow >= it.curRow
    THEN [columns |-> <<>>, err |-> NilErr, panic |-> FALSE, it |-> it]
    ELSE columnsScan(toks, d, it, it.pos, <<>>)

(***************************************************************************)
(* The worksheet as it is loaded: n row records numbered 1..n, row k with  *)
(* the dense cells of columns 1..k, each with a value of its own.          *)
(***************************************************************************)
InitCells(k) == [c \in 1..k |-> xlsxC(CellName(c, k), "", ToString(10 * k + c), c % 2)]

InitRows(n) == [k \in 1..n |-> [xlsxRow(k) EXCEPT !.C = InitCells(k)]]

\* Merged-cell lists a loaded worksheet may hold: none, one single-row region,
\* two single-row regions of one row next to each other in the list or apart,
\* a single-row region beside a region three rows tall.
EditMerges ==
    { <<>>,
      <<AreaRef(1, 1, 2, 1)>>,
      <<AreaRef(1, 1, 2, 1), AreaRef(3, 1, 4, 1)>>,
      <<AreaRef(1, 1, 2, 1), AreaRef(3, 2, 4, 2), AreaRef(3, 1, 4, 1)>>,
      <<AreaRef(1, 1, 2, 1), AreaRef(3, 1, 4, 3)>> }

MetaMerges == { <<>>, <<AreaRef(1, 1, 2, 1)>> }

\* Arguments the calls are made with.
RowArgs == 0..(MaxRows + 2)
EditRowArgs == 0..(MaxEditRows + 1)
Heights == {0, 50}
Levels == {0, 1, 7, 8}

NoIter == [curRow |-> 0, totalRow |-> 0, stashRow |-> 0, pos |-> 1]

NoCall ==
    [op |-> "none", row |-> 0, row2 |-> 0, arg |-> 0, err |-> NilErr,
     ret |-> 0, vis |-> FALSE, placed |-> FALSE]

Called(op, row, row2, arg, err, ret, vis, placed) ==
    [op |-> op, row |-> row, row2 |-> row2, arg |-> arg, err |-> err,
     ret |-> ret, vis |-> vis, placed |-> placed]

IterUnchanged == UNCHANGED <<loaded, xml, sharedStrings, iter, results, pc>>

(***************************************************************************)
(* One action per exported operation on the in-memory worksheet.           *)
(***************************************************************************)
DoSetRowHeight(row, height) ==
    LET r == SetRowHeight(sheetData, row, height) IN
    /\ sheetData' = r.Row
    /\ last' = Called("SetRowHeight", row, 0, height, r.err, 0, FALSE, FALSE)
    /\ nops' = nops + 1
    /\ UNCHANGED mergeCells
    /\ IterUnchanged

DoGetRowHeight(row) ==
    LET r == GetRowHeight(sheetData, row) IN
    /\ last' = Called("GetRowHeight", row, 0, 0, r.err, r.ret, FALSE, FALSE)
    /\ nops' = nops + 1
    /\ UNCHANGED <<sheetData, mergeCells>>
    /\ IterUnchanged

DoSetRowVisible(row, visible) ==
    LET r == SetRowVisible(sheetData, row, visible) IN
    /\ sheetData' = r.Row
    /\ last' = Called("SetRowVisible", row, 0, 0, r.err, 0, visible, FALSE)
    /\ nops' = nops + 1
    /\ UNCHANGED mergeCells
    /\ IterUnchanged

DoGetRowVisible(row) ==
    LET r == GetRowVisible(sheetData, row) IN
    /\ last' = Called("GetRowVisible", row, 0, 0, r.err, 0, r.ret, FALSE)
    /\ nops' = nops + 1
    /\ UNCHANGED <<sheetData, mergeCells>>
    /\ IterUnchanged

DoSetRowOutlineLevel(row, level) ==
    LET r == SetRowOutlineLevel(sheetData, row, level) IN
    /\ sheetData' = r.Row
    /\ last' = Called("SetRowOutlineLevel", row, 0, level, r.err, 0, FALSE, FALSE)
    /\ nops' = nops + 1
    /\ UNCHANGED mergeCells
    /\ IterUnchanged

DoGetRowOutlineLevel(row) ==
    LET r == GetRowOutlineLevel(sheetData, row) IN
    /\ last' = Called("GetRowOutlineLevel", row, 0, 0, r.err, r.ret, FALSE, FALSE)
    /\ nops' = nops + 1
    /\ UNCHANGED <<sheetData, mergeCells>>
    /\ IterUnchanged

DoRemoveRow(row) ==
    LET r == RemoveRow(sheetData, mergeCells, row) IN
    /\ sheetData' = r.Row
    /\ mergeCells' = r.MergeCells
    /\ last' = Called("RemoveRow", row, 0, 0, r.err, 0, FALSE, FALSE)
    /\ nops' = nops + 1
    /\ IterUnchanged

DoInsertRow(row) ==
    LET r == InsertRow(sheetData, mergeCells, row) IN
    /\ sheetData' = r.Row
    /\ mergeCells' = r.MergeCells
    /\ last' = Called("InsertRow", row, 0, 0, r.err, 0, FALSE, FALSE)
    /\ nops' = nops + 1
    /\ IterUnchanged

DoDuplicateRow(row) ==
    LET r == DuplicateRow(sheetData, mergeCells, row) IN
    /\ sheetData' = r.Row
    /\ mergeCells' = r.MergeCells
    /\ last' = Called("DuplicateRow", row, row + 1, 0, r.err, 0, FALSE, r.placed)
    /\ nops' = nops + 1
    /\ IterUnchanged

DoDuplicateRowTo(row, row2) ==
    LET r == DuplicateRowTo(sheetData, mergeCells, row, row2) IN
    /\ sheetData' = r.Row
    /\ mergeCells' = r.MergeCells
    /\ last' = Called("DuplicateRowTo", row, row2, 0, r.err, 0, FALSE, r.placed)
    /\ nops' = nops + 1
    /\ IterUnchanged

(***************************************************************************)
(* Spec: every operation of rows.go on the in-memory worksheet, called in  *)
(* any order with any arguments.                                           *)
(***************************************************************************)
Init ==
    /\ sheetData \in {InitRows(n) : n \in 0..MaxRows}
    /\ mergeCells \in MetaMerges
    /\ loaded = TRUE
    /\ xml = <<>>
    /\ sharedStrings = <<>>
    /\ iter = NoIter
    /\ results = <<>>
    /\ pc = "idle"
    /\ last = NoCall
    /\ nops = 0

Next ==
    \/ \E row \in RowArgs, height \in Heights : nops < MaxOps /\ DoSetRowHeight(row, height)
    \/ \E row \in RowArgs : nops < MaxOps /\ DoGetRowHeight(row)
    \/ \E row \in RowArgs, visible \in BOOLEAN : nops < MaxOps /\ DoSetRowVisible(row, visible)
    \/ \E row \in RowArgs : nops < MaxOps /\ DoGetRowVisible(row)
    \/ \E row \in RowArgs, level \in Levels : nops < MaxOps /\ DoSetRowOutlineLevel(row, level)
    \/ \E row \in RowArgs : nops < MaxOps /\ DoGetRowOutlineLevel(row)
    \/ \E row \in RowArgs : nops < MaxOps /\ DoRemoveRow(row)
    \/ \E row \in RowArgs : nops < MaxOps /\ DoInsertRow(row)
    \/ \E row \in RowArgs : nops < MaxOps /\ DoDuplicateRow(row)
    \/ \E row \in RowArgs, row2 \in RowArgs : nops < MaxOps /\ DoDuplicateRowTo(row, row2)

Spec == Init /\ [][Next]_vars

(***************************************************************************)
(* SpecEdit: the structural operations on worksheets with merged cells.    *)
(***************************************************************************)
InitEdit ==
    /\ sheetData \in {InitRows(n) : n \in 0..MaxEditRows}
    /\ mergeCells \in EditMerges
    /\ loaded = TRUE
    /\ xml = <<>>
    /\ sharedStrings = <<>>
    /\ iter = NoIter
    /\ results = <<>>
    /\ pc = "idle"
    /\ last = NoCall
    /\ nops = 0

NextEdit ==
    \/ \E row \in EditRowArgs : nops < MaxEditOps /\ DoRemoveRow(row)
    \/ \E row \in EditRowArgs : nops < MaxEditOps /\ DoInsertRow(row)
    \/ \E row \in EditRowArgs : nops < MaxEditOps /\ DoDuplicateRow(row)
    \/ \E row \in EditRowArgs, row2 \in EditRowArgs :
           nops < MaxEditOps /\ DoDuplicateRowTo(row, row2)

SpecEdit == InitEdit /\ [][NextEdit]_vars

(***************************************************************************)
(* SpecRows: GetRows (rows.go:42-59) draining the iterator it opens over a *)
(* worksheet part.  The part declares up to MaxXmlRows row elements in any *)
(* order, numbered within 1..MaxXmlRowNum; a row element holds no cell, a  *)
(* cell in column A, or a shared-string cell in column B and an            *)
(* inline-string cell in column D.  When the worksheet is loaded in memory *)
(* the part is stale and Rows writes the worksheet over it.                *)
(***************************************************************************)
XmlCells(p, r) ==
    IF p = 0 THEN <<>>
    ELSE IF p = 1 THEN <<xlsxC(CellName(1, r), "", ToString(10 * r + 1), 0)>>
    ELSE <<xlsxC(CellName(2, r), "s", "0", 1),
           [xlsxC(CellName(4, r), "inlineStr", "", 0) EXCEPT !.IS = InlineIS("txt")]>>

XmlRow(decl) ==
    <<Tok("row", ToString(decl.r), NoC)>>
    \o [i \in 1..Len(XmlCells(decl.p, decl.r)) |-> Tok("c", "", XmlCells(decl.p, decl.r)[i])]
    \o <<Tok("endrow", "", NoC)>>

XmlDoc(decls) ==
    <<Tok("start", "", NoC)>>
    \o Concat([i \in 1..Len(decls) |-> XmlRow(decls[i])])
    \o <<Tok("end", "", NoC)>>

XmlDecls ==
    UNION {[1..n -> [r : 1..MaxXmlRowNum, p : 0..2]] : n \in 0..MaxXmlRows}

InitRowsSpec ==
    /\ \/ /\ loaded = FALSE
          /\ sheetData = <<>>
          /\ xml \in {XmlDoc(d) : d \in XmlDecls}
       \/ /\ loaded = TRUE
          /\ sheetData \in {InitRows(n) : n \in 1..2}
          /\ xml = Marshal(<<>>)
    /\ mergeCells = <<>>
    /\ sharedStrings = <<"foo">>
    /\ iter = NoIter
    /\ results = <<>>
    /\ pc = "start"
    /\ last = NoCall
    /\ nops = 0

\* flush that never writes the worksheet back: the part stays as it was.
flushNever(isLoaded, rows, part) == part

\* The flush of Rows (rows.go:174-178): a worksheet held in memory is
\* marshalled and saved over its part.
flush(isLoaded, rows, part) == IF isLoaded THEN Marshal(rows) ELSE part

\* rows, err := f.Rows(sheet) (rows.go:43-46, 169-212): flush, pre-scan, and
\* a second decoder at the start of the part.
GetRowsOpen ==
    /\ pc = "start"
    /\ LET part == flush(loaded, sheetData, xml)
           scan == preScan(part, 1, 0)
       IN  /\ xml' = part
           /\ IF scan.err # NilErr
              THEN /\ pc' = "done"
                   /\ last' = Called("GetRows", 0, 0, 0, scan.err, 0, FALSE, FALSE)
                   /\ UNCHANGED iter
              ELSE /\ pc' = "next"
                   /\ iter' = [curRow |-> 0, totalRow |-> scan.totalRow,
                               stashRow |-> 0, pos |-> 1]
                   /\ UNCHANGED last
    /\ UNCHANGED <<sheetData, mergeCells, loaded, sharedStrings, results, nops>>

\* for rows.Next() (rows.go:48; rows.err is never set, so line 49 never breaks).
GetRowsNext ==
    /\ pc = "next"
    /\ iter' = RowsNext(iter).it
    /\ IF RowsNext(iter).ret
       THEN pc' = "columns" /\ UNCHANGED last
       ELSE /\ pc' = "done"
            /\ last' = Called("GetRows", 0, 0, 0, NilErr, 0, FALSE, FALSE)
    /\ UNCHANGED <<sheetData, mergeCells, loaded, xml, sharedStrings, results, nops>>

\* onColumns that hands the error of Columns to the caller of GetRows.
onColumnsReturnsErr(res, c) ==
    IF c.err # NilErr
    THEN [pc |-> "done", results |-> res, err |-> c.err]
    ELSE [pc |-> "next", results |-> Append(res, c.columns), err |-> NilErr]

\* What GetRows does with the outcome c of a Columns call (rows.go:52-58):
\* break on an error and return the rows collected with a nil error, else
\* append the row and go on.
onColumns(res, c) ==
    IF c.err # NilErr
    THEN [pc |-> "done", results |-> res, err |-> NilErr]
    ELSE [pc |-> "next", results |-> Append(res, c.columns), err |-> NilErr]

\* row, err := rows.Columns(); break on an error, else append (rows.go:52-56).
GetRowsColumns ==
    /\ pc = "columns"
    /\ LET c == RowsColumns(xml, sharedStrings, iter) IN
       /\ iter' = c.it
       /\ IF c.panic
          THEN pc' = "panic" /\ UNCHANGED <<results, last>>
          ELSE /\ pc' = onColumns(results, c).pc
               /\ results' = onColumns(results, c).results
               /\ IF onColumns(results, c).pc = "done"
                  THEN last' = Called("GetRows", 0, 0, 0, onColumns(results, c).err,
                                      0, FALSE, FALSE)
                  ELSE UNCHANGED last
    /\ UNCHANGED <<sheetData, mergeCells, loaded, xml, sharedStrings, nops>>

NextRows == GetRowsOpen \/ GetRowsNext \/ GetRowsColumns

SpecRows == InitRowsSpec /\ [][NextRows]_vars

(***************************************************************************)
(* SpecFlush: a worksheet loaded in memory is edited up to MaxFlushOps     *)
(* times and then read by GetRows.  The part holds the bytes the worksheet *)
(* was loaded from.                                                        *)
(***************************************************************************)
InitFlush ==
    /\ sheetData \in {InitRows(n) : n \in 0..MaxRows}
    /\ mergeCells \in MetaMerges
    /\ loaded = TRUE
    /\ xml = Marshal(sheetData)
    /\ sharedStrings = <<"foo">>
    /\ iter = NoIter
    /\ results = <<>>
    /\ pc = "start"
    /\ last = NoCall
    /\ nops = 0

CanEdit == pc = "start" /\ nops < MaxFlushOps

\* Valid row arguments, up to two rows past the loaded ones.
FlushRowArgs == 1..(MaxRows + 2)

NextFlush ==
    \/ \E row \in FlushRowArgs : CanEdit /\ DoSetRowHeight(row, 50)
    \/ \E row \in FlushRowArgs : CanEdit /\ DoSetRowVisible(row, FALSE)
    \/ \E row \in FlushRowArgs : CanEdit /\ DoSetRowOutlineLevel(row, 1)
    \/ \E row \in FlushRowArgs : CanEdit /\ DoRemoveRow(row)
    \/ \E row \in FlushRowArgs : CanEdit /\ DoInsertRow(row)
    \/ \E row \in FlushRowArgs, row2 \in FlushRowArgs : CanEdit /\ DoDuplicateRowTo(row, row2)
    \/ GetRowsOpen
    \/ GetRowsNext
    \/ GetRowsColumns

SpecFlush == InitFlush /\ [][NextFlush]_vars

(***************************************************************************)
(* SpecRowsErr: GetRows over a part with malformed content.  A row element *)
(* declares a row number or the text "x"; it holds no cell, a cell in      *)
(* column A, a cell whose reference names no cell, or a cell in column A   *)
(* followed by such a cell.                                                *)
(***************************************************************************)
ErrRowTexts == {"1", "2", "3", "x"}

ErrCells(p, i) ==
    IF p = 0 THEN <<>>
    ELSE IF p = 1 THEN <<xlsxC(CellName(1, i), "", ToString(10 * i + 1), 0)>>
    ELSE IF p = 2 THEN <<xlsxC(CellName(0, i), "", "bad", 0)>>
    ELSE <<xlsxC(CellName(1, i), "", ToString(10 * i + 1), 0),
           xlsxC(CellName(0, i), "", "bad", 0)>>

ErrDoc(decls) ==
    <<Tok("start", "", NoC)>>
    \o Concat([i \in 1..Len(decls) |->
                  <<Tok("row", decls[i].r, NoC)>>
                  \o [j \in 1..Len(ErrCells(decls[i].p, i)) |->
                         Tok("c", "", ErrCells(decls[i].p, i)[j])]
                  \o <<Tok("endrow", "", NoC)>>])
    \o <<Tok("end", "", NoC)>>

InitRowsErr ==
    /\ \E n \in 0..MaxErrRows :
          \E decls \in [1..n -> [r : ErrRowTexts, p : 0..3]] : xml = ErrDoc(decls)
    /\ loaded = FALSE
    /\ sheetData = <<>>
    /\ mergeCells = <<>>
    /\ sharedStrings = <<>>
    /\ iter = NoIter
    /\ results = <<>>
    /\ pc = "start"
    /\ last = NoCall
    /\ nops = 0

SpecRowsErr == InitRowsErr /\ [][NextRows]_vars

(***************************************************************************)
(* SpecIter: a caller of Rows drives the iterator itself, with up to       *)
(* MaxIterCalls calls of Next and Columns in any order, also after Next    *)
(* has returned false.  pc is "exhausted" from the first false on; the     *)
(* result of a Next call is last.vis, the row of a Columns call results.   *)
(***************************************************************************)
InitIter ==
    /\ xml \in {XmlDoc(d) : d \in XmlDecls}
    /\ loaded = FALSE
    /\ sheetData = <<>>
    /\ mergeCells = <<>>
    /\ sharedStrings = <<"foo">>
    /\ iter = NoIter
    /\ results = <<>>
    /\ pc = "start"
    /\ last = NoCall
    /\ nops = 0

\* rows, err := f.Rows(sheet) (rows.go:169-212).
IterOpen ==
    /\ pc = "start"
    /\ LET part == flush(loaded, sheetData, xml)
           scan == preScan(part, 1, 0)
       IN  /\ xml' = part
           /\ pc' = IF scan.err # NilErr THEN "done" ELSE "open"
           /\ iter' = [curRow |-> 0, totalRow |-> scan.totalRow, stashRow |-> 0, pos |-> 1]
           /\ last' = Called("Rows", 0, 0, 0, scan.err, 0, FALSE, FALSE)
    /\ UNCHANGED <<sheetData, mergeCells, loaded, sharedStrings, results, nops>>

\* rows.Next() (rows.go:72-75).
IterNext ==
    /\ pc \in {"open", "exhausted"}
    /\ nops < MaxIterCalls
    /\ iter' = RowsNext(iter).it
    /\ last' = Called("Next", 0, 0, 0, NilErr, 0, RowsNext(iter).ret, FALSE)
    /\ pc' = IF RowsNext(iter).ret THEN pc ELSE "exhausted"
    /\ nops' = nops + 1
    /\ UNCHANGED <<sheetData, mergeCells, loaded, xml, sharedStrings, results>>

\* rows.Columns() (rows.go:83-140).
IterColumns ==
    /\ pc \in {"open", "exhausted"}
    /\ nops < MaxIterCalls
    /\ LET c == RowsColumns(xml, sharedStrings, iter) IN
       /\ ~c.panic
       /\ iter' = c.it
       /\ results' = <<c.columns>>
       /\ last' = Called("Columns", 0, 0, 0, c.err, 0, FALSE, FALSE)
    /\ nops' = nops + 1
    /\ UNCHANGED <<sheetData, mergeCells, loaded, xml, sharedStrings, pc>>

NextIter == IterOpen \/ IterNext \/ IterColumns

SpecIter == InitIter /\ [][NextIter]_vars

(***************************************************************************)
(* SpecRepair: duplicateMergeCells (rows.go:530-560) one loop iteration at *)
(* a time.  The merged-cell list holds up to MaxRepairCells regions:       *)
(* single-row regions of rows 1..3 and a region three rows tall.  results  *)
(* keeps the list as it was when the repair started; last holds the call:  *)
(* row (after rows.go:534-536), row2 and, in arg, the loop index i.        *)
(***************************************************************************)
RepairRegions == {AreaRef(1, r, 2, r) : r \in 1..3} \cup {AreaRef(3, 1, 4, 3)}

RepairRows == 1..3

InitRepair ==
    /\ \E n \in 0..MaxRepairCells : mergeCells \in [1..n -> RepairRegions]
    /\ results = mergeCells
    /\ \E row \in RepairRows, row2 \in RepairRows :
          /\ row # row2
          /\ last = Called("duplicateMergeCells", row, row2, 0, NilErr, 0, FALSE, FALSE)
    /\ sheetData = <<>>
    /\ loaded = TRUE
    /\ xml = <<>>
    /\ sharedStrings = <<>>
    /\ iter = NoIter
    /\ pc = "enter"
    /\ nops = 0

\* rows.go:531-545: nothing to do without merged cells; row++ when
\* row > row2; return when a region straddles row2.
RepairEnter ==
    /\ pc = "enter"
    /\ IF mergeCells = <<>> \/ straddles(mergeCells, last.row2)
       THEN pc' = "done" /\ UNCHANGED last
       ELSE /\ pc' = "loop"
            /\ last' = [last EXCEPT !.row = IF last.row > last.row2 THEN last.row + 1
                                             ELSE last.row]
    /\ UNCHANGED <<sheetData, mergeCells, loaded, xml, sharedStrings, iter, results, nops>>

\* for i := 0; i < len(xlsx.MergeCells.Cells); i++ { ... } (rows.go:546-558);
\* last.arg is i.
RepairIterate ==
    /\ pc = "loop"
    /\ last.arg < Len(mergeCells)
    /\ LET n == repairIteration(mergeCells, last.arg + 1, last.row, last.row2) IN
       /\ mergeCells' = n.cells
       /\ last' = [last EXCEPT !.arg = n.i - 1]
    /\ nops' = nops + 1
    /\ UNCHANGED <<sheetData, loaded, xml, sharedStrings, iter, results, pc>>

\* The loop condition fails: return nil (rows.go:559).
RepairReturn ==
    /\ pc = "loop"
    /\ last.arg >= Len(mergeCells)
    /\ pc' = "done"
    /\ UNCHANGED <<sheetData, mergeCells, loaded, xml, sharedStrings, iter, results, last, nops>>

NextRepair == RepairEnter \/ RepairIterate \/ RepairReturn

\* The loop runs in one goroutine that is not stopped: a step that can be
\* taken is taken.
SpecRepair == InitRepair /\ [][NextRepair]_vars /\ WF_vars(NextRepair)

(***************************************************************************)
(* SpecValue: getValueFrom (rows.go:301-322) applied to one cell, as       *)
(* Columns applies it (rows.go:129).  The cell is of any of the types the  *)
(* switch tells apart, with a raw value that is empty, an index, a         *)
(* negative number or no number at all; the shared-string table holds up   *)
(* to MaxSST strings.                                                      *)
(***************************************************************************)
RawValues == {"", "0", "1", "2", "3", "-1", "x"}

CellTypes == {"s", "str", "inlineStr", ""}

SST(n) == [i \in 1..n |-> "s" \o ToString(i - 1)]

ValueCells ==
    {[xlsxC(CellName(1, 1), t, v, st) EXCEPT !.IS = is] :
        t \in CellTypes, v \in RawValues, st \in {0, 1}, is \in {NilIS, InlineIS("txt")}}

InitValue ==
    /\ xml \in {<<Tok("c", "", c)>> : c \in ValueCells}
    /\ sharedStrings \in {SST(n) : n \in 0..MaxSST}
    /\ sheetData = <<>>
    /\ mergeCells = <<>>
    /\ loaded = FALSE
    /\ iter = NoIter
    /\ results = <<>>
    /\ pc = "cell"
    /\ last = NoCall
    /\ nops = 0

\* val, _ := colCell.getValueFrom(rows.f, d) (rows.go:129).
DoGetValueFrom ==
    /\ pc = "cell"
    /\ LET v == getValueFrom(xml[1].c, sharedStrings) IN
       IF v.panic
       THEN pc' = "panic" /\ UNCHANGED results
       ELSE pc' = "value" /\ results' = <<<<v.val>>>>
    /\ last' = Called("getValueFrom", 0, 0, 0, NilErr, 0, FALSE, FALSE)
    /\ nops' = 1
    /\ UNCHANGED <<sheetData, mergeCells, loaded, xml, sharedStrings, iter>>

NextValue == DoGetValueFrom

SpecValue == InitValue /\ [][NextValue]_vars

(***************************************************************************)
(* SpecCheckRow: checkRow applied to a worksheet.  The row records are in  *)
(* ascending order of their numbers, which need not start at 1 nor be      *)
(* consecutive; the cells of a row are in ascending column order.          *)
(***************************************************************************)
\* The elements of a set of numbers within 1..n, in ascending order.
Ascending(S, n) == SelectSeq([i \in 1..n |-> i], LAMBDA x : x \in S)

CheckRowCells(cols, r) ==
    LET cs == Ascending(cols, MaxCheckCol) IN
    [i \in 1..Len(cs) |->
        xlsxC(CellName(cs[i], r), "", ToString(10 * r + cs[i]), (cs[i] % 2) + 1)]

CheckRowInput(nums, f) ==
    LET ns == Ascending(nums, MaxCheckRows + 1) IN
    [i \in 1..Len(ns) |-> [xlsxRow(ns[i]) EXCEPT !.C = CheckRowCells(f[ns[i]], ns[i])]]

InitCheckRow ==
    /\ \E nums \in {n \in SUBSET (1..(MaxCheckRows + 1)) : Cardinality(n) <= MaxCheckRows} :
          \E f \in [nums -> SUBSET (1..MaxCheckCol)] :
             sheetData = CheckRowInput(nums, f)
    /\ mergeCells = <<>>
    /\ loaded = TRUE
    /\ xml = <<>>
    /\ sharedStrings = <<>>
    /\ iter = NoIter
    /\ results = <<>>
    /\ pc = "idle"
    /\ last = NoCall
    /\ nops = 0

DoCheckRow ==
    /\ nops = 0
    /\ sheetData' = checkRow(sheetData).Row
    /\ last' = Called("checkRow", 0, 0, 0, checkRow(sheetData).err, 0, FALSE, FALSE)
    /\ nops' = 1
    /\ UNCHANGED mergeCells
    /\ IterUnchanged

NextCheckRow == DoCheckRow

SpecCheckRow == InitCheckRow /\ [][NextCheckRow]_vars

(***************************************************************************)
(* Vocabulary of the claims.                                               *)
(***************************************************************************)
\* The indexes of the records numbered k, the first record numbered k.
RowsNumbered(rows, k) == {i \in 1..Len(rows) : rows[i].R = k}

RowNumbered(rows, k) == rows[Min(RowsNumbered(rows, k))]

\* The records are numbered 1..n, each number once.
HoldsRows1To(rows, n) ==
    /\ Len(rows) = n
    /\ \A k \in 1..n : Cardinality(RowsNumbered(rows, k)) = 1

\* Two rows hold the same cells: column, type, value and style, one by one.
SameCells(a, b) ==
    /\ Len(a.C) = Len(b.C)
    /\ \A i \in 1..Len(a.C) :
          /\ a.C[i].R.col = b.C[i].R.col
          /\ a.C[i].T = b.C[i].T
          /\ a.C[i].V = b.C[i].V
          /\ a.C[i].S = b.C[i].S
          /\ a.C[i].IS = b.C[i].IS

\* Every cell reference of the row names row k.
CellsOnRow(a, k) == \A i \in 1..Len(a.C) : a.C[i].R.row = k

\* The single-row regions of a merged-cell list that lie on row k.
SingleRowRegions(cells, k) ==
    {i \in 1..Len(cells) : cells[i].from.row = k /\ cells[i].to.row = k}

HasRegion(cells, x1, y1, x2, y2) ==
    \E i \in 1..Len(cells) : areaRefToCoordinates(cells[i]) = <<x1, y1, x2, y2>>

\* DuplicateRowTo(row, row2) was called in this step and went past its
\* no-op returns (rows.go:476-500): it shifted at row2.
DuplicateShifts ==
    /\ last'.op = "DuplicateRowTo"
    /\ last'.row >= 1 /\ last'.row <= Len(sheetData)
    /\ last'.row2 >= 1 /\ last'.row # last'.row2
    /\ RowsNumbered(sheetData, last'.row) # {}

(***************************************************************************)
(* C2.  On a worksheet whose records are numbered 1..n, RemoveRow(r) with  *)
(* 1 <= r <= n leaves n-1 records: those numbered below r as they were,    *)
(* and for every k > r the record that was numbered k now numbered k-1     *)
(* with the same cells.                                                    *)
(***************************************************************************)
C2_RemoveRowStep ==
    (/\ last'.op = "RemoveRow"
     /\ HoldsRows1To(sheetData, Len(sheetData))
     /\ last'.row \in 1..Len(sheetData))
    => /\ last'.err = NilErr
       /\ HoldsRows1To(sheetData', Len(sheetData) - 1)
       /\ \A k \in 1..(Len(sheetData) - 1) :
             IF k < last'.row
             THEN RowNumbered(sheetData', k) = RowNumbered(sheetData, k)
             ELSE /\ SameCells(RowNumbered(sheetData', k), RowNumbered(sheetData, k + 1))
                  /\ CellsOnRow(RowNumbered(sheetData', k), k)

C2_RemoveRow == [][C2_RemoveRowStep]_vars

\* Row 1 of two rows was removed: the record left is numbered 1 and holds the
\* cells that row 2 was loaded with.
C2_Witness ==
    /\ last.op = "RemoveRow" /\ last.row = 1 /\ last.err = NilErr /\ nops = 1
    /\ Len(sheetData) = 1
    /\ sheetData[1].R = 1
    /\ SameCells(sheetData[1], InitRows(2)[2])

(***************************************************************************)
(* C3.  DuplicateRowTo(row, row2) with row >= 1, row2 >= 1, row # row2 and *)
(* a record numbered row: afterwards a record numbered row2 holds the      *)
(* source row's cells with every reference on row2, and the source row's   *)
(* cells are found unchanged at row (row < row2) or row + 1 (row > row2).  *)
(***************************************************************************)
C3_DuplicateStep ==
    (/\ last'.op = "DuplicateRowTo"
     /\ last'.row >= 1 /\ last'.row2 >= 1 /\ last'.row # last'.row2
     /\ RowsNumbered(sheetData, last'.row) # {})
    => LET src == RowNumbered(sheetData, last'.row)
           at  == IF last'.row < last'.row2 THEN last'.row ELSE last'.row + 1
       IN  /\ RowsNumbered(sheetData', last'.row2) # {}
           /\ SameCells(RowNumbered(sheetData', last'.row2), src)
           /\ CellsOnRow(RowNumbered(sheetData', last'.row2), last'.row2)
           /\ RowsNumbered(sheetData', at) # {}
           /\ SameCells(RowNumbered(sheetData', at), src)

C3_Duplicate == [][C3_DuplicateStep]_vars

(***************************************************************************)
(* C4.  When DuplicateRowTo(row, row2) has placed the copy and no merged   *)
(* region has row2 strictly inside its row span (neither before nor after  *)
(* the shift), every single-row region that lay on the source row has a    *)
(* region on row2 with the same first and last column afterwards.          *)
(***************************************************************************)
C4_MergeStep ==
    (/\ last'.op = "DuplicateRowTo"
     /\ last'.placed
     /\ ~straddles(mergeCells, last'.row2)
     /\ ~straddles(adjustMergeCells(mergeCells, last'.row2, 1), last'.row2))
    => \A i \in SingleRowRegions(mergeCells, last'.row) :
           HasRegion(mergeCells', mergeCells[i].from.col, last'.row2,
                                  mergeCells[i].to.col, last'.row2)

C4_EveryRegionDuplicated == [][C4_MergeStep]_vars

(***************************************************************************)
(* C5.  When DuplicateRowTo(row, row2) has shifted at row2 and some region *)
(* then has first row < row2 < last row, the merged-cell list after the    *)
(* call is the list as the shift left it: no region is created.            *)
(***************************************************************************)
C5_StraddleStep ==
    (/\ DuplicateShifts
     /\ straddles(adjustMergeCells(mergeCells, last'.row2, 1), last'.row2))
    => mergeCells' = adjustMergeCells(mergeCells, last'.row2, 1)

C5_NoRepairWhenStraddled == [][C5_StraddleStep]_vars

\* The copy was placed on row2, a region straddles row2 and a single-row
\* region lies on the source row: a repair would have had a region to create.
C5_Witness ==
    /\ last.op = "DuplicateRowTo" /\ last.placed
    /\ straddles(mergeCells, last.row2)
    /\ SingleRowRegions(mergeCells, IF last.row > last.row2 THEN last.row + 1 ELSE last.row) # {}
    /\ SingleRowRegions(mergeCells, last.row2) = {}

(***************************************************************************)
(* C6.  Called with a row below 1, each of the ten operations returns the  *)
(* InvalidRowNumber error and leaves the row records and the merged cells  *)
(* as they were.                                                           *)
(***************************************************************************)
RowOperations ==
    {"SetRowHeight", "GetRowHeight", "SetRowVisible", "GetRowVisible",
     "SetRowOutlineLevel", "GetRowOutlineLevel", "RemoveRow", "InsertRow",
     "DuplicateRow", "DuplicateRowTo"}

C6_InvalidRowStep ==
    (last'.op \in RowOperations /\ nops' = nops + 1 /\ last'.row < 1)
    => /\ last'.err = ErrInvalidRowNumber
       /\ sheetData' = sheetData
       /\ mergeCells' = mergeCells

C6_InvalidRowNumber == [][C6_InvalidRowStep]_vars

\* InsertRow(0) on a worksheet with a row and a merged region, after a call
\* that changed the worksheet.
C6_Witness ==
    /\ last.op = "InsertRow" /\ last.row = 0 /\ last.err = ErrInvalidRowNumber
    /\ Len(sheetData) >= 1 /\ mergeCells # <<>>

(***************************************************************************)
(* C7.  GetRowHeight(r) is the default height when no record is numbered   *)
(* r, and right after a successful SetRowHeight(r, h) with h # 0,          *)
(* GetRowHeight(r) is h -- whatever the numbering of the row records.      *)
(***************************************************************************)
C7_HeightRoundTrip ==
    /\ \A r \in 1..(Len(sheetData) + 1) :
          RowsNumbered(sheetData, r) = {}
          => GetRowHeight(sheetData, r) = [ret |-> defaultRowHeightPixels, err |-> NilErr]
    /\ (last.op = "SetRowHeight" /\ last.row >= 1 /\ last.arg # 0)
       => /\ last.err = NilErr
          /\ GetRowHeight(sheetData, last.row) = [ret |-> last.arg, err |-> NilErr]

(***************************************************************************)
(* C8.  GetRowVisible(r), r >= 1, answers visible for a row beyond the     *)
(* stored records, and right after SetRowVisible(r, false) it answers      *)
(* not visible.                                                            *)
(***************************************************************************)
C8_VisibleDefault ==
    /\ (last.op = "GetRowVisible" /\ last.row >= 1 /\ last.row > Len(sheetData))
       => (last.err = NilErr /\ last.vis = TRUE)
    /\ (last.op = "SetRowVisible" /\ last.row >= 1 /\ last.vis = FALSE)
       => GetRowVisible(sheetData, last.row) = [ret |-> FALSE, err |-> NilErr]

(***************************************************************************)
(* C9.  SetRowOutlineLevel(r, level), r >= 1: a level outside 1..7 fails   *)
(* with the invalid-outline-level error and changes no record; a level in  *)
(* 1..7 succeeds and GetRowOutlineLevel(r) then returns it.                *)
(* GetRowOutlineLevel(r) is 0 when no record is numbered r.                *)
(***************************************************************************)
C9_OutlineStep ==
    /\ (last'.op = "SetRowOutlineLevel" /\ last'.row >= 1 /\ last'.arg \notin 1..7)
       => (last'.err = ErrInvalidOutlineLevel /\ sheetData' = sheetData)
    /\ (last'.op = "SetRowOutlineLevel" /\ last'.row >= 1 /\ last'.arg \in 1..7)
       => /\ last'.err = NilErr
          /\ GetRowOutlineLevel(sheetData', last'.row) = [ret |-> last'.arg, err |-> NilErr]
    /\ \A r \in 1..(Len(sheetData') + 1) :
          RowsNumbered(sheetData', r) = {}
          => GetRowOutlineLevel(sheetData', r) = [ret |-> 0, err |-> NilErr]

C9_OutlineLevel == [][C9_OutlineStep]_vars

(***************************************************************************)
(* C1.  For a worksheet part whose row elements declare strictly ascending *)
(* row numbers, the largest being N, GetRows returns N rows: row k is the  *)
(* dense value list of the row element numbered k (the value of the cell   *)
(* of column c at position c, "" at the columns skipped before it), and    *)
(* the empty sequence when no row element is numbered k.                   *)
(***************************************************************************)
IsRowTok(t) == t.type = "row"

IsCellTok(t) == t.type = "c"

\* The row numbers the part declares, in the order of the row elements.
DeclaredRows(toks) ==
    [i \in 1..Len(SelectSeq(toks, IsRowTok)) |-> Atoi(SelectSeq(toks, IsRowTok)[i].r).n]

StrictlyAscending(nums) ==
    /\ \A i \in 1..Len(nums) : nums[i] >= 1
    /\ \A i \in 1..Len(nums) : \A j \in 1..Len(nums) : i < j => nums[i] < nums[j]

\* The cells the part declares on row k.
CellsOfRow(toks, k) ==
    LET cells == SelectSeq(toks, LAMBDA t : IsCellTok(t) /\ t.c.R.row = k) IN
    [i \in 1..Len(cells) |-> cells[i].c]

DenseValues(cells, d) ==
    IF cells = <<>> THEN <<>>
    ELSE [c \in 1..cells[Len(cells)].R.col |->
             IF \E i \in 1..Len(cells) : cells[i].R.col = c
             THEN getValueFrom(cells[CHOOSE i \in 1..Len(cells) : cells[i].R.col = c], d).val
             ELSE ""]

MaxOf(nums) ==
    IF nums = <<>> THEN 0
    ELSE CHOOSE m \in {nums[i] : i \in 1..Len(nums)} : \A i \in 1..Len(nums) : nums[i] <= m

ExpectedRows(toks, d) ==
    [k \in 1..MaxOf(DeclaredRows(toks)) |->
        IF \E i \in 1..Len(DeclaredRows(toks)) : DeclaredRows(toks)[i] = k
        THEN DenseValues(CellsOfRow(toks, k), d)
        ELSE <<>>]

C1_GetRowsDense ==
    (pc = "done" /\ StrictlyAscending(DeclaredRows(xml)))
    => /\ last.op = "GetRows" /\ last.err = NilErr
       /\ results = ExpectedRows(xml, sharedStrings)

\* Row elements numbered 1 and 4 only: four rows are returned, the second
\* and the third empty, the fourth with the blanks of columns A and C.
C1_Witness ==
    /\ pc = "done"
    /\ DeclaredRows(xml) = <<1, 4>>
    /\ Len(results) = 4
    /\ results[1] = <<"11">>
    /\ results[2] = <<>> /\ results[3] = <<>>
    /\ results[4] = <<"", "fmt(foo)", "", "txt">>

(***************************************************************************)
(* C10.  checkRow leaves every row record numbered R whose cells are in    *)
(* ascending column order, with last column L and fewer than L cells, with *)
(* exactly L cells, the i-th with the reference of column i on row R: a    *)
(* declared cell unchanged at its column, a blank cell elsewhere.          *)
(***************************************************************************)
C10_DensifyStep ==
    last'.op = "checkRow"
    => \A idx \in 1..Len(sheetData) :
         LET old == sheetData[idx] IN
         (Len(old.C) > 0 /\ Len(old.C) < old.C[Len(old.C)].R.col)
         => /\ Len(sheetData') = Len(sheetData)
            /\ sheetData'[idx].R = old.R
            /\ Len(sheetData'[idx].C) = old.C[Len(old.C)].R.col
            /\ \A i \in 1..old.C[Len(old.C)].R.col :
                 /\ sheetData'[idx].C[i].R = CellName(i, old.R)
                 /\ \A j \in 1..Len(old.C) :
                      old.C[j].R.col = i => sheetData'[idx].C[i] = old.C[j]
                 /\ (\A j \in 1..Len(old.C) : old.C[j].R.col # i)
                      => sheetData'[idx].C[i] = BlankC(CellName(i, old.R))

C10_Densify == [][C10_DensifyStep]_vars

(***************************************************************************)
(* C11.  A shared-string cell with a non-empty raw value resolves to the   *)
(* (formatted) shared string at index i when the raw value is the numeral  *)
(* of an i with 0 <= i < n, n the size of the table, and to the formatted  *)
(* raw value otherwise (i >= n, i < 0, or no numeral); the resolution      *)
(* never aborts.                                                           *)
(***************************************************************************)
IsIndex(v, n) == \E i \in 0..(n - 1) : ToString(i) = v

IndexOf(v, n) == CHOOSE i \in 0..(n - 1) : ToString(i) = v

C11_SharedStringValue ==
    (last.op = "getValueFrom" /\ xml[1].c.T = "s" /\ xml[1].c.V # "")
    => /\ pc = "value"
       /\ results =
            <<<<IF IsIndex(xml[1].c.V, Len(sharedStrings))
                THEN formattedValue(xml[1].c.S,
                                    sharedStrings[IndexOf(xml[1].c.V, Len(sharedStrings)) + 1])
                ELSE formattedValue(xml[1].c.S, xml[1].c.V)>>>>

(***************************************************************************)
(* C12.  Whatever the order of the row elements of the part, the iterator  *)
(* that Rows returns has totalRow equal to the largest row number a row    *)
(* element declares, and when Next has returned false it has returned      *)
(* true that many times.                                                   *)
(***************************************************************************)
C12_TotalRowIsMax ==
    /\ pc \in {"next", "columns", "done"}
       => iter.totalRow = MaxOf(DeclaredRows(xml))
    /\ pc = "done"
       => iter.curRow = MaxOf(DeclaredRows(xml)) + 1

(***************************************************************************)
(* C13.  A worksheet held in memory is read as it stands in memory when    *)
(* the iterator is opened: once Rows has returned, the part is the         *)
(* worksheet marshalled at that moment, the pre-scan counted its rows, the *)
(* cursor stands at its start, and every row GetRows returns for a stored  *)
(* record holds that record's cell values.                                 *)
(***************************************************************************)
StoredValues(r, d) == [i \in 1..Len(r.C) |-> getValueFrom(r.C[i], d).val]

C13_OpenStep ==
    (pc = "start" /\ pc' # "start" /\ loaded)
    => /\ xml' = Marshal(sheetData)
       /\ pc' = "next"
       /\ iter'.pos = 1 /\ iter'.curRow = 0
       /\ iter'.totalRow =
             (IF sheetData = <<>> THEN 0 ELSE sheetData[Len(sheetData)].R)

C13_ReadsMemory ==
    (loaded /\ pc = "done" /\ StrictlyAscending([i \in 1..Len(sheetData) |-> sheetData[i].R]))
    => /\ Len(results) = MaxOf([i \in 1..Len(sheetData) |-> sheetData[i].R])
       /\ \A i \in 1..Len(sheetData) :
             results[sheetData[i].R] = StoredValues(sheetData[i], sharedStrings)

C13_FlushBeforeRead == [][C13_OpenStep]_vars /\ []C13_ReadsMemory

\* Row 1 was given a second record by DuplicateRowTo(1, 2) after loading;
\* GetRows returned both rows although the loaded bytes held one.
C13_Witness ==
    /\ loaded /\ pc = "done" /\ nops >= 1
    /\ last.op = "GetRows"
    /\ Len(sheetData) = 2
    /\ Len(results) = 2
    /\ results[2] = <<"fmt(11)">>

(***************************************************************************)
(* C14.  When the Columns call for logical row k fails after rows 1..k-1   *)
(* were collected, GetRows ends there and returns those k-1 rows with a    *)
(* nil error; GetRows returns an error only when opening the iterator      *)
(* fails, before any row is read.                                          *)
(***************************************************************************)
C14_ColumnsFailStep ==
    (/\ pc = "columns"
     /\ Len(results) = iter.curRow - 1
     /\ RowsColumns(xml, sharedStrings, iter).err # NilErr)
    => /\ pc' = "done"
       /\ results' = results
       /\ last'.op = "GetRows" /\ last'.err = NilErr

C14_ErrorOnlyAtOpen ==
    (pc = "done" /\ last.err # NilErr)
    => (iter = NoIter /\ results = <<>> /\ preScan(xml, 1, 0).err # NilErr)

C14_SwallowsRowErrors == [][C14_ColumnsFailStep]_vars /\ []C14_ErrorOnlyAtOpen

\* The second row element holds a cell whose reference names no cell: the
\* first row is returned, the error is not.
C14_Witness ==
    /\ pc = "done" /\ last.op = "GetRows" /\ last.err = NilErr
    /\ iter.curRow = 2 /\ iter.totalRow = 2
    /\ results = <<<<"11">>>>

(***************************************************************************)
(* C15.  InsertRow(row), row >= 1, is one shift of +1 at row and nothing   *)
(* else: no record is created or removed, every record numbered k >= row   *)
(* is numbered k + 1 afterwards with the same cells, their references on   *)
(* row k + 1, every record numbered below row is as it was, and the merged *)
(* regions are shifted once.                                               *)
(***************************************************************************)
C15_InsertStep ==
    (last'.op = "InsertRow" /\ last'.row >= 1)
    => /\ last'.err = NilErr
       /\ Len(sheetData') = Len(sheetData)
       /\ \A i \in 1..Len(sheetData) :
             IF sheetData[i].R >= last'.row
             THEN /\ sheetData'[i].R = sheetData[i].R + 1
                  /\ SameCells(sheetData'[i], sheetData[i])
                  /\ CellsOnRow(sheetData'[i], sheetData[i].R + 1)
                  /\ [sheetData'[i] EXCEPT !.R = 0, !.C = <<>>]
                       = [sheetData[i] EXCEPT !.R = 0, !.C = <<>>]
             ELSE sheetData'[i] = sheetData[i]
       /\ Len(mergeCells') = Len(mergeCells)
       /\ \A i \in 1..Len(mergeCells) :
             /\ mergeCells'[i].from.col = mergeCells[i].from.col
             /\ mergeCells'[i].to.col = mergeCells[i].to.col
             /\ mergeCells'[i].from.row =
                   mergeCells[i].from.row + (IF mergeCells[i].from.row >= last'.row THEN 1 ELSE 0)
             /\ mergeCells'[i].to.row =
                   mergeCells[i].to.row + (IF mergeCells[i].to.row >= last'.row THEN 1 ELSE 0)

C16_NoOpStep ==
    (/\ last'.op = "DuplicateRowTo"
     /\ last'.row >= 1
     /\ \/ last'.row > Len(sheetData)
        \/ last'.row2 < 1
        \/ last'.row = last'.row2
        \/ RowsNumbered(sheetData, last'.row) = {})
    => /\ last'.err = NilErr
       /\ sheetData' = sheetData
       /\ mergeCells' = mergeCells

C16_DuplicateNoOp == [][C16_NoOpStep]_vars

\* After InsertRow(1) the two records are numbered 2 and 3; DuplicateRowTo(1, 3)
\* finds no record numbered 1 and leaves the worksheet, merged region
\* included, as InsertRow left it.
C16_Witness ==
    /\ last.op = "DuplicateRowTo" /\ last.row = 1 /\ last.row2 = 3
    /\ last.err = NilErr /\ nops = 2
    /\ Len(sheetData) = 2 /\ sheetData[1].R = 2 /\ sheetData[2].R = 3
    /\ mergeCells = <<AreaRef(1, 2, 2, 2)>>

(***************************************************************************)
(* C17.  A successful RemoveRow(row), row >= 1, shifts the references by   *)
(* -1 at row in every worksheet state, also when row is within the number  *)
(* of row records but no record is numbered row: every record numbered     *)
(* k > row is found at k - 1 with its cells, and every merged region below *)
(* row moves up by one.                                                    *)
(***************************************************************************)
C17_ShiftStep ==
    (last'.op = "RemoveRow" /\ last'.row >= 1 /\ last'.err = NilErr)
    => /\ \A i \in 1..Len(sheetData) :
             sheetData[i].R > last'.row
             => \E j \in 1..Len(sheetData') :
                   /\ sheetData'[j].R = sheetData[i].R - 1
                   /\ SameCells(sheetData'[j], sheetData[i])
       /\ Len(mergeCells') = Len(mergeCells)
       /\ \A i \in 1..Len(mergeCells) :
             mergeCells[i].from.row > last'.row
             => mergeCells'[i].from.row = mergeCells[i].from.row - 1

C17_RemoveAlwaysShifts == [][C17_ShiftStep]_vars

(***************************************************************************)
(* C18.  The loaded row records have pairwise distinct numbers, all >= 1;  *)
(* after any sequence of InsertRow, RemoveRow, DuplicateRow and            *)
(* DuplicateRowTo calls they still have.                                   *)
(***************************************************************************)
C18_DistinctRowNumbers ==
    /\ \A i \in 1..Len(sheetData) : sheetData[i].R >= 1
    /\ \A i \in 1..Len(sheetData) : \A j \in 1..Len(sheetData) :
          i # j => sheetData[i].R # sheetData[j].R

(***************************************************************************)
(* C19.  The cursor of an iterator never decreases; a Next call adds       *)
(* exactly one to it and leaves the token position and the stash alone; a  *)
(* Columns call leaves the cursor alone; and a Next call made after Next   *)
(* has returned false returns false.                                       *)
(***************************************************************************)
C19_CursorStep ==
    /\ pc # "start" => iter'.curRow >= iter.curRow
    /\ (nops' # nops /\ last'.op = "Next")
       => /\ iter'.curRow = iter.curRow + 1
          /\ iter'.pos = iter.pos
          /\ iter'.stashRow = iter.stashRow
          /\ iter'.totalRow = iter.totalRow
    /\ (nops' # nops /\ last'.op = "Columns")
       => iter'.curRow = iter.curRow
    /\ (pc = "exhausted" /\ nops' # nops /\ last'.op = "Next")
       => (last'.vis = FALSE /\ pc' = "exhausted")

C19_CursorMonotonic == [][C19_CursorStep]_vars

\* One row element numbered 1: Next answered true, then false, then, after
\* a Columns call, false again, the cursor at 3.
C19_Witness ==
    /\ pc = "exhausted" /\ nops = 4
    /\ last.op = "Next" /\ last.vis = FALSE
    /\ iter.totalRow = 1 /\ iter.curRow = 3

(***************************************************************************)
(* C20.  The merge repair of DuplicateRowTo ends for every merged-cell     *)
(* list and every row # row2, although it appends to the list it walks:    *)
(* it creates at most as many regions as there were single-row regions on  *)
(* the source row when it started, never deletes or changes a region, and  *)
(* takes at most one iteration per region of the list.                     *)
(***************************************************************************)
C20_Bounded ==
    /\ Len(mergeCells) >= Len(results)
    /\ SubSeq(mergeCells, 1, Len(results)) = results
    /\ pc \in {"loop", "done"}
       => Len(mergeCells) - Len(results)
            <= Cardinality(SingleRowRegions(results, last.row))
    /\ nops <= Len(mergeCells)

C20_RepairTerminates == []C20_Bounded /\ <>(pc = "done")

\* Two single-row regions of the source row with a region between them:
\* two regions were created and the repair has returned.
C20_Witness ==
    /\ pc = "done"
    /\ Len(results) = 3
    /\ Cardinality(SingleRowRegions(results, last.row)) = 2
    /\ Len(mergeCells) = 5
    /\ mergeCells[5].from.row = last.row2

====
